---- MODULE Spec2Model ----
(***************************************************************************)
(* Playtune (src/Playtune.cpp): a score bytestream interpreter that plays  *)
(* notes on hardware timers.  The main flow calls the public functions;    *)
(* the timer compare interrupts run asynchronously.  Timer 1 is the Wait   *)
(* Timer: its handler counts score waits and tune_delay() delays and       *)
(* re-enters the interpreter when a wait expires.                          *)
(*                                                                         *)
(* Granularity.  An interrupt handler runs with interrupts disabled, so    *)
(* between its entry and its return no other action is enabled (isr_pc).   *)
(* The main flow is interruptible between statements; it is cut at the     *)
(* places where the Wait Timer handler can observe or change what the      *)
(* statement sequence is working on (pc).  The interpreter loop of         *)
(* tune_stepscore is one action per command.                               *)
(***************************************************************************)
EXTENDS Integers, Sequences, FiniteSets

VARIABLES
  chip,                       \* which processor the library is built for
  F_CPU,                      \* the clock frequency the library is built for
  tune_pins,                  \* _tune_pins[]
  tune_num_chans,             \* _tune_num_chans
  timer_pin,                  \* timerN_pin_port / timerN_pin_mask, as the pin they name
  ie,                         \* TIMSKn.OCIEnA: compare interrupt enable, per timer
  cs,                         \* TCCRnB clock select (prescaler) bits, per timer
  ocr,                        \* OCRnA (OCR4C on the 10-bit timer), per timer
  tcnt,                       \* TCNTn, per timer: "zero" when just written 0, "any" once
                              \* the timer may have counted on
  note_writes,                \* the registers written by the last accepted
                              \* tune_playnote, in the order of its statements
  level,                      \* output level of each pin
  wait_timer_frequency2,
  wait_timer_old_frequency2,
  wait_timer_playing,
  doing_delay,
  wait_toggle_count,
  delay_toggle_count,
  score,                      \* the flash bytes at the pointer given to tune_playscore
  score_start,                \* offset of score_start from that pointer
  score_cursor,               \* offset of score_cursor from that pointer
  tune_playing,
  volume_present,
  pc,                         \* where the main flow is
  loop_i,                     \* loop variable i of tune_stopscore
  caller,                     \* who called tune_stopscore: "api" (the sketch) or "play"
                              \* (tune_playscore); "none" outside tune_stopscore
  isr_pc,                     \* "none", or "step" while the Wait Timer handler interprets
  ret,                        \* the public function that returned in the last step, or "none";
                              \* "replayscore": tune_playscore called while playing,
                              \* "initchan_full": tune_initchan called with no timer left
  ended,                      \* how playback ended since the score was installed: "no",
                              \* "cmd" (a Stop command was executed), "call" (tune_stopscore)
  port_latch                  \* the pin levels the main flow has read from the ports for a
                              \* "*port &= ~mask" whose write is still to come; <<>> otherwise

vars == <<chip, F_CPU, tune_pins, tune_num_chans, timer_pin, ie, cs, ocr, tcnt,
          note_writes, level,
          wait_timer_frequency2, wait_timer_old_frequency2, wait_timer_playing,
          doing_delay, wait_toggle_count, delay_toggle_count,
          score, score_start, score_cursor, tune_playing, volume_present,
          pc, loop_i, caller, isr_pc, ret, ended, port_latch>>

-----------------------------------------------------------------------------
(* Program constants *)

ASSUME_VOLUME == 0
HDR_F1_VOLUME_PRESENT == 128
CMD_PLAYNOTE == 144
CMD_STOPNOTE == 128
CMD_INSTRUMENT == 192
CMD_RESTART == 224
CMD_STOP == 240

\* The processors the source can be built for.  The source also has conditional
\* text for the ATmega8, but with __AVR_ATmega8__ defined tune_playnote loses the
\* "else {" of its timer-2 branch and keeps the closing brace: the braces do not
\* balance and the file does not compile, so there is no ATmega8 program.  The
\* ATmega8 cases below follow the source text and are never taken.
Chips == {"ATmega328", "ATmega2560", "ATmega32U4"}

\* F_CPU is given by the build; the source distinguishes <= 8 MHz from above.
Clocks == {16000000}

\* The order in which timers are allocated to channels.
tune_pin_to_timer_PGM ==
  CASE chip = "ATmega2560" -> <<1, 2, 3, 4, 5, 0>>
    [] chip = "ATmega8"    -> <<1, 2>>
    [] chip = "ATmega32U4" -> <<1, 0, 3, 4>>
    [] OTHER               -> <<1, 2, 0>>

AVAILABLE_TIMERS == Len(tune_pin_to_timer_PGM)

Timers == 0..5

\* Table of midi note frequencies * 2
tune_frequencies2_PGM ==
  << 16, 17, 18, 19, 21, 22, 23, 24, 26, 28, 29, 31, 33, 35, 37, 39, 41,
     44, 46, 49, 52, 55, 58, 62, 65, 69, 73, 78, 82, 87, 92, 98, 104, 110,
     117, 123, 131, 139, 147, 156, 165, 175, 185, 196, 208, 220, 233,
     247, 262, 277, 294, 311, 330, 349, 370, 392, 415, 440, 466, 494,
     523, 554, 587, 622, 659, 698, 740, 784, 831, 880, 932, 988, 1047,
     1109, 1175, 1245, 1319, 1397, 1480, 1568, 1661, 1760, 1865, 1976,
     2093, 2217, 2349, 2489, 2637, 2794, 2960, 3136, 3322, 3520, 3729,
     3951, 4186, 4435, 4699, 4978, 5274, 5588, 5920, 6272, 6645, 7040,
     7459, 7902, 8372, 8870, 9397, 9956, 10548, 11175, 11840, 12544,
     13290, 14080, 14917, 15804, 16744, 17740, 18795, 19912, 21096,
     22351, 23680, 25088 >>

\* pgm_read_word(tune_frequencies2_PGM + note)
Frequency2(note) == tune_frequencies2_PGM[note + 1]

-----------------------------------------------------------------------------
(* The timer hardware as the code uses it *)

\* The compare interrupt handlers compiled for the chip.
HasISR(t) ==
  CASE t = 0 -> chip # "ATmega8"
    [] t = 1 -> TRUE
    [] t = 2 -> chip # "ATmega32U4"
    [] t = 3 -> chip \in {"ATmega2560", "ATmega32U4"}
    [] t = 4 -> chip \in {"ATmega2560", "ATmega32U4"}
    [] OTHER -> chip = "ATmega2560"

\* *timerN_pin_port &= ~timerN_pin_mask; a port pointer never set is null with mask 0
PinLow(lv, t) ==
  IF timer_pin[t] \in DOMAIN lv THEN [lv EXCEPT ![timer_pin[t]] = FALSE] ELSE lv

\* *timerN_pin_port ^= timerN_pin_mask
PinToggle(lv, t) ==
  IF timer_pin[t] \in DOMAIN lv THEN [lv EXCEPT ![timer_pin[t]] = ~@] ELSE lv

\* digitalPinToPort(pin) for the sketch's pins 2..8, on the board of each
\* processor: Uno (ATmega328), Mega 2560, Leonardo (ATmega32U4).
PortOf(pin) ==
  CASE chip = "ATmega2560" ->
         (CASE pin \in {2, 3, 5} -> "E" [] pin = 4 -> "G" [] OTHER -> "H")
    [] chip = "ATmega32U4" ->
         (CASE pin \in {2, 3, 4, 6} -> "D" [] pin = 5 -> "C" [] pin = 7 -> "E"
            [] OTHER -> "B")
    [] OTHER -> IF pin <= 7 THEN "D" ELSE "B"

\* The second half of "*timerN_pin_port &= ~(timerN_pin_mask)" in the main flow,
\* the first half having read the levels latch: the whole port is written, the
\* timer's pin low and the port's other pins as they were read.
PortStore(lv, latch, t) ==
  IF timer_pin[t] \in DOMAIN lv
    THEN [p \in DOMAIN lv |->
            IF p = timer_pin[t] THEN FALSE
            ELSE IF PortOf(p) = PortOf(timer_pin[t]) THEN latch[p]
            ELSE lv[p]]
    ELSE lv

\* The hardware state that tune_playnote and tune_stopnote work on.
HW == [ie |-> ie, cs |-> cs, ocr |-> ocr, tcnt |-> tcnt, writes |-> note_writes,
       level |-> level,
       wtf2 |-> wait_timer_frequency2, wtp |-> wait_timer_playing]

\* The prescaler search for the 8-bit timers (timer 0, timer 2, and the 10-bit
\* timer 4 of the ATmega32U4): the divisor chosen, the compare value and the
\* clock select bits.
Prescale8(t, frequency2) ==
  LET o1    == F_CPU \div frequency2 - 1
      o8    == (F_CPU \div frequency2) \div 8 - 1
      o32   == (F_CPU \div frequency2) \div 32 - 1
      o64   == (F_CPU \div frequency2) \div 64 - 1
      o128  == (F_CPU \div frequency2) \div 128 - 1
      o256  == (F_CPU \div frequency2) \div 256 - 1
      o1024 == (F_CPU \div frequency2) \div 1024 - 1
      b8    == IF t = 4 THEN 4 ELSE 2
      b64   == IF t = 0 THEN 3 ELSE IF t = 4 THEN 7 ELSE 4
      b256  == IF t = 0 THEN 4 ELSE IF t = 4 THEN 9 ELSE 6
      b1024 == IF t = 0 THEN 5 ELSE IF t = 4 THEN 11 ELSE 7
      \* after the first "if (ocr > 255)" block's ck/8 and ck/32 steps
      s2    == IF t = 2 /\ o8 > 255 THEN [div |-> 32, ocr |-> o32, bits |-> 3]
                                    ELSE [div |-> 8, ocr |-> o8, bits |-> b8]
      \* after the ck/64 and ck/128 steps
      s3    == IF t = 2 /\ o64 > 255 THEN [div |-> 128, ocr |-> o128, bits |-> 5]
                                     ELSE [div |-> 64, ocr |-> o64, bits |-> b64]
  IN  IF o1 <= 255 THEN [div |-> 1, ocr |-> o1, bits |-> 1]
      ELSE IF s2.ocr <= 255 THEN s2
      ELSE IF s3.ocr <= 255 THEN s3
      ELSE IF o256 <= 255 THEN [div |-> 256, ocr |-> o256, bits |-> b256]
      ELSE [div |-> 1024, ocr |-> o1024, bits |-> b1024]

\* Faulty variant of Prescale16: ck/1 whatever the compare value.
Prescale16_NoPrescale(frequency2) ==
  [div |-> 1, ocr |-> F_CPU \div frequency2 - 1, bits |-> 1]

\* The two choices for the 16-bit timers: ck/1 or ck/64.
Prescale16(frequency2) ==
  LET o1 == F_CPU \div frequency2 - 1
  IN  IF o1 > 65535 THEN [div |-> 64, ocr |-> (F_CPU \div frequency2) \div 64 - 1, bits |-> 3]
                    ELSE [div |-> 1, ocr |-> o1, bits |-> 1]

Is8BitTimer(t) == t = 0 \/ t = 2 \/ (chip = "ATmega32U4" /\ t = 4)

\* Faulty variant of LowestNote8: the floor does not depend on the clock.
LowestNote8_AnyClock == IF F_CPU <= 8000000 THEN 24 ELSE 24

\* The floor below which a note is not playable on an 8-bit timer.
LowestNote8 == IF F_CPU <= 8000000 THEN 12 ELSE 24

\* Faulty variant of PlayNoteOnTimer: the compare value is written without
\* clearing the counter, as before the change of 15 August 2016.
PlayNoteOnTimer_KeepCounter(h, chan, note) ==
  LET timer_num  == tune_pin_to_timer_PGM[chan + 1]
      n          == IF note > 127 THEN 127 ELSE note
      frequency2 == Frequency2(n)
  IN  IF Is8BitTimer(timer_num) /\ n < LowestNote8 THEN h
      ELSE
        LET p == IF Is8BitTimer(timer_num) THEN Prescale8(timer_num, frequency2)
                                           ELSE Prescale16(frequency2)
            \* OCR4C = ocr / 2 + 1 on the 10-bit timer; the registers written
            \* are 8 bits wide on the 8-bit timers and 16 bits wide otherwise
            reg == IF chip = "ATmega32U4" /\ timer_num = 4 THEN (p.ocr \div 2 + 1) % 256
                   ELSE IF Is8BitTimer(timer_num) THEN p.ocr % 256
                   ELSE p.ocr % 65536
        \* the switch: OCRnA = ocr; TCNTn = 0; bitWrite(TIMSKn, OCIEnA, 1)
        IN  [h EXCEPT !.cs[timer_num] = p.bits,
                      !.ocr[timer_num] = reg,
                      !.ie[timer_num] = TRUE,
                      !.writes = <<"TCCR", "OCR", "TIMSK">>,
                      !.wtf2 = IF timer_num = 1 THEN frequency2 ELSE @,
                      !.wtp = IF timer_num = 1 THEN TRUE ELSE @]

\* The accepted case of tune_playnote: the timer of channel chan set up for note.
PlayNoteOnTimer(h, chan, note) ==
  LET timer_num  == tune_pin_to_timer_PGM[chan + 1]
      n          == IF note > 127 THEN 127 ELSE note
      frequency2 == Frequency2(n)
  IN  IF Is8BitTimer(timer_num) /\ n < LowestNote8 THEN h
      ELSE
        LET p == IF Is8BitTimer(timer_num) THEN Prescale8(timer_num, frequency2)
                                           ELSE Prescale16(frequency2)
            \* OCR4C = ocr / 2 + 1 on the 10-bit timer; the registers written
            \* are 8 bits wide on the 8-bit timers and 16 bits wide otherwise
            reg == IF chip = "ATmega32U4" /\ timer_num = 4 THEN (p.ocr \div 2 + 1) % 256
                   ELSE IF Is8BitTimer(timer_num) THEN p.ocr % 256
                   ELSE p.ocr % 65536
        \* the switch: OCRnA = ocr; TCNTn = 0; bitWrite(TIMSKn, OCIEnA, 1)
        IN  [h EXCEPT !.cs[timer_num] = p.bits,
                      !.ocr[timer_num] = reg,
                      !.tcnt[timer_num] = "zero",
                      !.ie[timer_num] = TRUE,
                      !.writes = <<"TCCR", "OCR", "TCNT", "TIMSK">>,
                      !.wtf2 = IF timer_num = 1 THEN frequency2 ELSE @,
                      !.wtp = IF timer_num = 1 THEN TRUE ELSE @]

\* Faulty variant of PlayNote: the channel is checked against the number of timers, not
\* against the number of channels initialised.
PlayNote_TableGuard(h, nchans, chan, note) ==
  IF chan >= AVAILABLE_TIMERS THEN h ELSE PlayNoteOnTimer(h, chan, note)

\* tune_playnote(chan, note) on hardware state h, with nchans channels initialised
PlayNote(h, nchans, chan, note) ==
  IF chan >= nchans THEN h ELSE PlayNoteOnTimer(h, chan, note)

\* What the flash holds after tune_pin_to_timer_PGM is not known: a read past the
\* table yields any byte.  0..5 are the values a case of the switch may match, 6
\* stands for every value that matches none.
TableOverrun == 0..6

\* Faulty variant of StopNote: stopping channel 0 also forgets the Wait Timer's
\* frequency.
StopNote_ForgetsFrequency(h, chan, past_table) ==
  LET timer_num == IF chan < AVAILABLE_TIMERS THEN tune_pin_to_timer_PGM[chan + 1]
                                              ELSE past_table
  IN  CASE timer_num = 0 /\ chip # "ATmega8" ->
             [h EXCEPT !.ie[0] = FALSE, !.level = PinLow(@, 0)]
        [] timer_num = 1 ->
             [h EXCEPT !.wtp = FALSE, !.wtf2 = 0, !.level = PinLow(@, 1)]
        [] timer_num = 2 /\ chip # "ATmega32U4" ->
             \* TIMSK2 &= ~(1 << OCIE1A): bit OCIE1A of TIMSK2.  With separate mask
             \* registers that is the position of OCIE2A; on the ATmega8 TIMSK2 and
             \* TIMSK1 are both TIMSK and the bit is timer 1's enable.
             [h EXCEPT !.ie[IF chip = "ATmega8" THEN 1 ELSE 2] = FALSE,
                       !.level = PinLow(@, 2)]
        [] timer_num \in {3, 4} /\ chip \in {"ATmega2560", "ATmega32U4"} ->
             [h EXCEPT !.ie[timer_num] = FALSE, !.level = PinLow(@, timer_num)]
        [] timer_num = 5 /\ chip = "ATmega2560" ->
             [h EXCEPT !.ie[5] = FALSE, !.level = PinLow(@, 5)]
        [] OTHER -> h

\* Faulty variant of StopNote: stopping channel 0 disables timer 1's compare
\* interrupt as for the other timers.
StopNote_DisablesWaitTimer(h, chan, past_table) ==
  LET timer_num == IF chan < AVAILABLE_TIMERS THEN tune_pin_to_timer_PGM[chan + 1]
                                              ELSE past_table
  IN  CASE timer_num = 0 /\ chip # "ATmega8" ->
             [h EXCEPT !.ie[0] = FALSE, !.level = PinLow(@, 0)]
        [] timer_num = 1 ->
             [h EXCEPT !.wtp = FALSE, !.ie[1] = FALSE, !.level = PinLow(@, 1)]
        [] timer_num = 2 /\ chip # "ATmega32U4" ->
             \* TIMSK2 &= ~(1 << OCIE1A): bit OCIE1A of TIMSK2.  With separate mask
             \* registers that is the position of OCIE2A; on the ATmega8 TIMSK2 and
             \* TIMSK1 are both TIMSK and the bit is timer 1's enable.
             [h EXCEPT !.ie[IF chip = "ATmega8" THEN 1 ELSE 2] = FALSE,
                       !.level = PinLow(@, 2)]
        [] timer_num \in {3, 4} /\ chip \in {"ATmega2560", "ATmega32U4"} ->
             [h EXCEPT !.ie[timer_num] = FALSE, !.level = PinLow(@, timer_num)]
        [] timer_num = 5 /\ chip = "ATmega2560" ->
             [h EXCEPT !.ie[5] = FALSE, !.level = PinLow(@, 5)]
        [] OTHER -> h

\* tune_stopnote(chan) on hardware state h.  There is no check of chan against
\* _tune_num_chans; past the table the timer number read is past_table.
StopNote(h, chan, past_table) ==
  LET timer_num == IF chan < AVAILABLE_TIMERS THEN tune_pin_to_timer_PGM[chan + 1]
                                              ELSE past_table
  IN  CASE timer_num = 0 /\ chip # "ATmega8" ->
             [h EXCEPT !.ie[0] = FALSE, !.level = PinLow(@, 0)]
        [] timer_num = 1 ->
             [h EXCEPT !.wtp = FALSE, !.level = PinLow(@, 1)]
        [] timer_num = 2 /\ chip # "ATmega32U4" ->
             \* TIMSK2 &= ~(1 << OCIE1A): bit OCIE1A of TIMSK2.  With separate mask
             \* registers that is the position of OCIE2A; on the ATmega8 TIMSK2 and
             \* TIMSK1 are both TIMSK and the bit is timer 1's enable.
             [h EXCEPT !.ie[IF chip = "ATmega8" THEN 1 ELSE 2] = FALSE,
                       !.level = PinLow(@, 2)]
        [] timer_num \in {3, 4} /\ chip \in {"ATmega2560", "ATmega32U4"} ->
             [h EXCEPT !.ie[timer_num] = FALSE, !.level = PinLow(@, timer_num)]
        [] timer_num = 5 /\ chip = "ATmega2560" ->
             [h EXCEPT !.ie[5] = FALSE, !.level = PinLow(@, 5)]
        [] OTHER -> h

-----------------------------------------------------------------------------
(* The score interpreter *)

\* pgm_read_byte(score + i).  The flash image ends with the score array; flash
\* that was never programmed reads as 0xFF.
ReadByte(i) == IF i < Len(score) THEN score[i + 1] ELSE 255

\* Faulty variant of ToggleCount: the quotient is truncated, not rounded.
ToggleCount_Truncate(frequency2, msec) == (frequency2 * msec) \div 1000

\* The wait and delay conversion: ((unsigned long) frequency2 * msec + 500) / 1000.
\* frequency2 is 0 or a table entry (at most 25088) and msec is below 65536, so
\* the 32-bit sum is at most 1644142580 and does not wrap.
ToggleCount(frequency2, msec) == (frequency2 * msec + 500) \div 1000

\* Faulty variant of ExecCmd: Restart returns to the score pointer, not to the
\* start after the header.
ExecCmd_RestartAtPointer(h, cur, past_table) ==
  LET cmd    == ReadByte(cur)
      opcode == (cmd \div 16) * 16
      chan   == cmd % 16
      keep   == [h |-> h, cursor |-> cur + 1, playing |-> tune_playing,
                 wait |-> wait_toggle_count, done |-> FALSE, stop |-> FALSE]
  IN  IF cmd < 128 THEN
        LET duration == cmd * 256 + ReadByte(cur + 1)
            count    == ToggleCount(h.wtf2, duration)
        IN  [keep EXCEPT !.cursor = cur + 2,
                         !.wait = IF count = 0 THEN 1 ELSE count,
                         !.done = TRUE]
      ELSE IF opcode = CMD_STOPNOTE THEN
        [keep EXCEPT !.h = StopNote(h, chan, past_table)]
      ELSE IF opcode = CMD_PLAYNOTE THEN
        [keep EXCEPT !.cursor = IF volume_present THEN cur + 3 ELSE cur + 2,
                     !.h = PlayNote(h, tune_num_chans, chan, ReadByte(cur + 1))]
      ELSE IF opcode = CMD_INSTRUMENT THEN
        [keep EXCEPT !.cursor = cur + 2]
      ELSE IF opcode = CMD_RESTART THEN
        [keep EXCEPT !.cursor = 0]
      ELSE IF opcode = CMD_STOP THEN
        [keep EXCEPT !.playing = FALSE, !.done = TRUE, !.stop = TRUE]
      ELSE keep

\* Faulty variant of ExecCmd: the instrument byte is not skipped.
ExecCmd_InstrumentNoOperand(h, cur, past_table) ==
  LET cmd    == ReadByte(cur)
      opcode == (cmd \div 16) * 16
      chan   == cmd % 16
      keep   == [h |-> h, cursor |-> cur + 1, playing |-> tune_playing,
                 wait |-> wait_toggle_count, done |-> FALSE, stop |-> FALSE]
  IN  IF cmd < 128 THEN
        LET duration == cmd * 256 + ReadByte(cur + 1)
            count    == ToggleCount(h.wtf2, duration)
        IN  [keep EXCEPT !.cursor = cur + 2,
                         !.wait = IF count = 0 THEN 1 ELSE count,
                         !.done = TRUE]
      ELSE IF opcode = CMD_STOPNOTE THEN
        [keep EXCEPT !.h = StopNote(h, chan, past_table)]
      ELSE IF opcode = CMD_PLAYNOTE THEN
        [keep EXCEPT !.cursor = IF volume_present THEN cur + 3 ELSE cur + 2,
                     !.h = PlayNote(h, tune_num_chans, chan, ReadByte(cur + 1))]
      ELSE IF opcode = CMD_INSTRUMENT THEN
        keep
      ELSE IF opcode = CMD_RESTART THEN
        [keep EXCEPT !.cursor = score_start]
      ELSE IF opcode = CMD_STOP THEN
        [keep EXCEPT !.playing = FALSE, !.done = TRUE, !.stop = TRUE]
      ELSE keep

\* One pass of the while (1) loop of tune_stepscore: the command at cursor cur,
\* on hardware state h.  done: the loop was left by a break; stop: by the break
\* of the Stop command.
ExecCmd(h, cur, past_table) ==
  LET cmd    == ReadByte(cur)
      opcode == (cmd \div 16) * 16
      chan   == cmd % 16
      keep   == [h |-> h, cursor |-> cur + 1, playing |-> tune_playing,
                 wait |-> wait_toggle_count, done |-> FALSE, stop |-> FALSE]
  IN  IF cmd < 128 THEN
        LET duration == cmd * 256 + ReadByte(cur + 1)
            count    == ToggleCount(h.wtf2, duration)
        IN  [keep EXCEPT !.cursor = cur + 2,
                         !.wait = IF count = 0 THEN 1 ELSE count,
                         !.done = TRUE]
      ELSE IF opcode = CMD_STOPNOTE THEN
        [keep EXCEPT !.h = StopNote(h, chan, past_table)]
      ELSE IF opcode = CMD_PLAYNOTE THEN
        [keep EXCEPT !.cursor = IF volume_present THEN cur + 3 ELSE cur + 2,
                     !.h = PlayNote(h, tune_num_chans, chan, ReadByte(cur + 1))]
      ELSE IF opcode = CMD_INSTRUMENT THEN
        [keep EXCEPT !.cursor = cur + 2]
      ELSE IF opcode = CMD_RESTART THEN
        [keep EXCEPT !.cursor = score_start]
      ELSE IF opcode = CMD_STOP THEN
        [keep EXCEPT !.playing = FALSE, !.done = TRUE, !.stop = TRUE]
      ELSE keep

\* What the command at the cursor may read past tune_pin_to_timer_PGM: any byte
\* when it is a note-off for a channel beyond the table, nothing otherwise.
PastTableReads ==
  LET cmd == ReadByte(score_cursor)
  IN  IF (cmd \div 16) * 16 = CMD_STOPNOTE /\ cmd % 16 >= AVAILABLE_TIMERS
        THEN TableOverrun ELSE {6}

\* The optional file header at the start of flash image s.
HeaderByte(s, i) == IF i < Len(s) THEN s[i + 1] ELSE 255
HasHeader(s) == HeaderByte(s, 0) = 80 /\ HeaderByte(s, 1) = 116
HeaderVolume(s) == (HeaderByte(s, 3) \div HDR_F1_VOLUME_PRESENT) % 2 = 1

-----------------------------------------------------------------------------
(* Inputs *)

\* The pin the sketch gives to tune_initchan, by the number of channels already
\* initialised: a pin of its own for every channel, and one more for a call
\* beyond the last timer.
SketchPins == <<2, 3, 4, 5, 6, 7, 8>>
Pins == {SketchPins[i] : i \in DOMAIN SketchPins}
PinArgs == {SketchPins[tune_num_chans + 1]}

\* The scores the main flow may play, as flash images.
\*   note 60 on channel 0, note 69 on channel 1, wait 2 ms, both off, stop
ScoreTune == <<144, 60, 145, 69, 0, 2, 128, 129, 240>>
\*   stop at once; the flash after it holds more commands
ScoreStopThenMore == <<240, 145, 69, 0, 1, 240>>
\*   7-byte header with the volume flag; notes with velocity bytes on channels 0, 6
ScoreVolume == <<80, 116, 7, 128, 0, 2, 0, 144, 69, 100, 150, 60, 90, 0, 3, 128, 240>>
\*   6-byte header without the volume flag; instrument change, note on channel 1
ScoreQuietHeader == <<80, 116, 6, 64, 0, 1, 193, 5, 145, 69, 0, 1, 129, 240>>
\*   channel 0 off and on; notes on and off for channels 15 and 6
ScoreBeyond == <<128, 144, 60, 159, 60, 150, 69, 0, 2, 143, 134, 240>>
\*   percussion note 200 on channel 1
ScorePercussion == <<145, 200, 0, 1, 129, 240>>

\*   note 69 on channel 0, wait 2 ms, restart
ScoreRestart == <<144, 69, 0, 2, 224>>

Scores == {ScoreTune, ScoreStopThenMore, ScoreVolume, ScoreQuietHeader,
           ScoreBeyond, ScorePercussion, ScoreRestart}

MaxDelayMs == 2

\* Scores with waits of many ticks, played by the one-channel sketch of SpecLong.
\*   note 60 on channel 0, wait 1000 ms, off, stop
ScoreRoundTrip == <<144, 60, 3, 232, 128, 240>>
\*   6-byte header without flags; note 69 on channel 0, wait 10 ms, restart
ScoreRestartHeader == <<80, 116, 6, 0, 0, 1, 144, 69, 0, 10, 224>>
LongScores == {ScoreRoundTrip, ScoreRestartHeader}

\* Inputs for the arithmetic of waits and delays (SpecArith): notes with the
\* doubled frequencies 16, 523, 880, 15804, 16744 and 25088; wait operands (high
\* and low byte) for 0, 1, 31, 32, 1000 and 32767 ms; delays in ms.
NoteSamples == {0, 60, 69, 119, 120, 127}
WaitSamples == {<<0, 0>>, <<0, 1>>, <<0, 31>>, <<0, 32>>, <<3, 232>>, <<127, 255>>}
MsSamples == {0, 1, 1000, 10832, 10833, 65535}
\*   note n on channel 0, wait w, stop
ScoreWait(n, w) == <<144, n, w[1], w[2], 240>>
\*   note n1 on channel 0, wait 0 ms, note n2 on channel 0, wait 0 ms, stop
ScoreRetune(n1, n2) == <<144, n1, 0, 0, 144, n2, 0, 0, 240>>
ArithScores ==
  {ScoreWait(n, w) : n \in NoteSamples, w \in WaitSamples}
    \cup {ScoreRetune(n1, n2) : n1 \in NoteSamples, n2 \in NoteSamples}

-----------------------------------------------------------------------------
(* Initial state: the globals as initialised, the timers not yet configured *)

Init ==
  /\ chip \in Chips
  /\ F_CPU \in Clocks
  /\ tune_pins = [c \in 0..(AVAILABLE_TIMERS - 1) |-> 0]
  /\ tune_num_chans = 0
  /\ timer_pin = [t \in Timers |-> 0]
  /\ ie = [t \in Timers |-> FALSE]
  /\ cs = [t \in Timers |-> 0]
  /\ ocr = [t \in Timers |-> 0]
  /\ tcnt = [t \in Timers |-> "any"]
  /\ note_writes = <<>>
  /\ level = [p \in Pins |-> FALSE]
  /\ wait_timer_frequency2 = 0
  /\ wait_timer_old_frequency2 = 0
  /\ wait_timer_playing = FALSE
  /\ doing_delay = FALSE
  /\ wait_toggle_count = 0
  /\ delay_toggle_count = 0
  /\ score = <<>>
  /\ score_start = 0
  /\ score_cursor = 0
  /\ tune_playing = FALSE
  /\ volume_present = (ASSUME_VOLUME # 0)
  /\ pc = "idle"
  /\ loop_i = 0
  /\ caller = "none"
  /\ isr_pc = "none"
  /\ ret = "none"
  /\ ended = "no"
  /\ port_latch = <<>>

\* The main flow may take a step: no interrupt handler is running.
MainAt(p) == pc = p /\ isr_pc = "none"

\* Assign hardware state h to the hardware variables.
SetHW(h) ==
  /\ ie' = h.ie
  /\ cs' = h.cs
  /\ ocr' = h.ocr
  /\ tcnt' = h.tcnt
  /\ note_writes' = h.writes
  /\ level' = h.level
  /\ wait_timer_frequency2' = h.wtf2
  /\ wait_timer_playing' = h.wtp

build == <<chip, F_CPU>>
hwvars == <<ie, cs, ocr, tcnt, note_writes, level, wait_timer_frequency2,
            wait_timer_playing>>
chanvars == <<tune_pins, tune_num_chans, timer_pin>>
scorevars == <<score, score_start, score_cursor, volume_present>>
delayvars == <<doing_delay, delay_toggle_count>>
callvars == <<loop_i, caller, ended>>

-----------------------------------------------------------------------------
(* tune_initchan *)

\* Faulty variant of InitChanCall: with no timer left the pin is stored in the last slot.
InitChanCall_Overwrite(pin) ==
  /\ MainAt("idle")
  /\ IF tune_num_chans < AVAILABLE_TIMERS
       THEN /\ tune_pins' = [tune_pins EXCEPT ![tune_num_chans] = pin]
            /\ tune_num_chans' = tune_num_chans + 1
            /\ pc' = "ic_cfg"
            /\ ret' = "none"
       ELSE /\ tune_pins' = [tune_pins EXCEPT ![AVAILABLE_TIMERS - 1] = pin]
            /\ UNCHANGED <<tune_num_chans, pc>>
            /\ ret' = "initchan_full"
  /\ UNCHANGED <<build, port_latch, timer_pin, hwvars, wait_timer_old_frequency2, wait_toggle_count,
                 delayvars, scorevars, tune_playing, callvars, isr_pc>>

\* The guard, _tune_pins[_tune_num_chans] = pin and _tune_num_chans++
InitChanCall(pin) ==
  /\ MainAt("idle")
  /\ IF tune_num_chans < AVAILABLE_TIMERS
       THEN /\ tune_pins' = [tune_pins EXCEPT ![tune_num_chans] = pin]
            /\ tune_num_chans' = tune_num_chans + 1
            /\ pc' = "ic_cfg"
            /\ ret' = "none"
       ELSE /\ UNCHANGED <<tune_pins, tune_num_chans, pc>>
            /\ ret' = "initchan_full"
  /\ UNCHANGED <<build, port_latch, timer_pin, hwvars, wait_timer_old_frequency2, wait_toggle_count,
                 delayvars, scorevars, tune_playing, callvars, isr_pc>>

\* Faulty variant of InitChanConfig: every channel's pin is stored as the pin of timer 1.
InitChanConfig_FirstTimer ==
  /\ MainAt("ic_cfg")
  /\ LET timer_num == tune_pin_to_timer_PGM[tune_num_chans]
         h0        == [HW EXCEPT !.cs[timer_num] = 1]
     IN  /\ timer_pin' = [timer_pin EXCEPT ![1] = tune_pins[tune_num_chans - 1]]
         /\ IF timer_num = 1
              THEN /\ SetHW(PlayNote(h0, tune_num_chans, 0, 60))
                   /\ pc' = "ic_stop"
                   /\ ret' = "none"
              ELSE /\ SetHW(h0)
                   /\ pc' = "idle"
                   /\ ret' = "initchan"
  /\ UNCHANGED <<build, port_latch, tune_pins, tune_num_chans, wait_timer_old_frequency2,
                 wait_toggle_count, delayvars, scorevars, tune_playing, callvars, isr_pc>>

\* The switch on timer_num: CTC mode, clk/1, the pin's port and mask; for timer 1
\* also tune_playnote(0, 60)
InitChanConfig ==
  /\ MainAt("ic_cfg")
  /\ LET timer_num == tune_pin_to_timer_PGM[tune_num_chans]
         h0        == [HW EXCEPT !.cs[timer_num] = 1]
     IN  /\ timer_pin' = [timer_pin EXCEPT ![timer_num] = tune_pins[tune_num_chans - 1]]
         /\ IF timer_num = 1
              THEN /\ SetHW(PlayNote(h0, tune_num_chans, 0, 60))
                   /\ pc' = "ic_stop"
                   /\ ret' = "none"
              ELSE /\ SetHW(h0)
                   /\ pc' = "idle"
                   /\ ret' = "initchan"
  /\ UNCHANGED <<build, port_latch, tune_pins, tune_num_chans, wait_timer_old_frequency2,
                 wait_toggle_count, delayvars, scorevars, tune_playing, callvars, isr_pc>>

\* tune_stopnote(0) at the end of the timer 1 case
InitChanStop ==
  /\ MainAt("ic_stop")
  /\ SetHW(StopNote(HW, 0, 6))
  /\ pc' = "idle"
  /\ ret' = "initchan"
  /\ UNCHANGED <<build, port_latch, chanvars, wait_timer_old_frequency2, wait_toggle_count,
                 delayvars, scorevars, tune_playing, callvars, isr_pc>>

-----------------------------------------------------------------------------
(* tune_stopscore *)

StopScoreCall ==
  /\ MainAt("idle")
  /\ pc' = "ss_loop"
  /\ loop_i' = 0
  /\ caller' = "api"
  /\ ret' = "none"
  /\ UNCHANGED <<build, port_latch, chanvars, hwvars, wait_timer_old_frequency2, wait_toggle_count,
                 delayvars, scorevars, tune_playing, isr_pc, ended>>

\* One pass of the for loop, or, when the loop ends, tune_playing = false
StopScoreLoop ==
  /\ MainAt("ss_loop")
  /\ IF loop_i < tune_num_chans
       THEN /\ SetHW(StopNote(HW, loop_i, 6))
            /\ loop_i' = loop_i + 1
            /\ ret' = "none"
            /\ UNCHANGED <<pc, tune_playing, caller, ended>>
       ELSE /\ tune_playing' = FALSE
            /\ loop_i' = 0
            /\ IF caller = "play"
                 THEN pc' = "ps_hdr" /\ ret' = "none" /\ UNCHANGED <<caller, ended>>
                 ELSE /\ pc' = "idle"
                      /\ ret' = "stopscore"
                      /\ caller' = "none"
                      /\ ended' = IF ended = "no" THEN "call" ELSE ended
            /\ UNCHANGED hwvars
  /\ UNCHANGED <<build, port_latch, chanvars, wait_timer_old_frequency2, wait_toggle_count,
                 delayvars, scorevars, isr_pc>>

-----------------------------------------------------------------------------
(* tune_stopnote in the main flow while a score plays *)

\* tune_stopnote writes the pin with "*timerN_pin_port &= ~(timerN_pin_mask)",
\* through a pointer variable: a read of the port, an AND and a write, between
\* which interrupts are taken.  A handler that only toggles pins in between
\* loses its toggle to the write, which leaves a sounding pin at a level it
\* takes anyway; the interleaving matters when the Wait Timer handler runs
\* tune_stepscore in between, that is while tune_playing is set: in the loop of
\* tune_stopscore and at the tune_stopnote(0) of tune_initchan.  The two actions
\* that follow are those calls with the read and the write as separate steps.

\* One pass of the loop of tune_stopscore up to the read of the port
StopScoreLoad ==
  /\ MainAt("ss_loop")
  /\ loop_i < tune_num_chans
  /\ SetHW([StopNote(HW, loop_i, 6) EXCEPT !.level = level])
  /\ port_latch' = level
  /\ pc' = "ss_store"
  /\ ret' = "none"
  /\ UNCHANGED <<build, chanvars, wait_timer_old_frequency2, wait_toggle_count,
                 delayvars, scorevars, tune_playing, callvars, isr_pc>>

\* The write of the port, and ++i
StopScoreStore ==
  /\ MainAt("ss_store")
  /\ level' = PortStore(level, port_latch, tune_pin_to_timer_PGM[loop_i + 1])
  /\ port_latch' = <<>>
  /\ loop_i' = loop_i + 1
  /\ pc' = "ss_loop"
  /\ ret' = "none"
  /\ UNCHANGED <<build, chanvars, ie, cs, ocr, tcnt, note_writes,
                 wait_timer_frequency2, wait_timer_playing, wait_timer_old_frequency2,
                 wait_toggle_count, delayvars, scorevars, tune_playing, caller, ended,
                 isr_pc>>

\* tune_stopnote(0) of tune_initchan up to the read of the port
InitChanStopLoad ==
  /\ MainAt("ic_stop")
  /\ SetHW([StopNote(HW, 0, 6) EXCEPT !.level = level])
  /\ port_latch' = level
  /\ pc' = "ic_store"
  /\ ret' = "none"
  /\ UNCHANGED <<build, chanvars, wait_timer_old_frequency2, wait_toggle_count,
                 delayvars, scorevars, tune_playing, callvars, isr_pc>>

\* The write of the port, and the return of tune_initchan
InitChanStopStore ==
  /\ MainAt("ic_store")
  /\ level' = PortStore(level, port_latch, 1)
  /\ port_latch' = <<>>
  /\ pc' = "idle"
  /\ ret' = "initchan"
  /\ UNCHANGED <<build, chanvars, ie, cs, ocr, tcnt, note_writes,
                 wait_timer_frequency2, wait_timer_playing, wait_timer_old_frequency2,
                 wait_toggle_count, delayvars, scorevars, tune_playing, callvars, isr_pc>>

-----------------------------------------------------------------------------
(* tune_playscore *)

\* Faulty variant of PlayScoreCall: a score that is playing is not stopped first.
PlayScoreCall_NoStop ==
  /\ MainAt("idle")
  /\ loop_i' = 0
  /\ pc' = "ps_hdr" /\ caller' = "none"
  /\ ret' = "none"
  /\ UNCHANGED <<build, port_latch, chanvars, hwvars, wait_timer_old_frequency2, wait_toggle_count,
                 delayvars, scorevars, tune_playing, isr_pc, ended>>

\* if (tune_playing) tune_stopscore();
PlayScoreCall ==
  /\ MainAt("idle")
  /\ loop_i' = 0
  /\ IF tune_playing
       THEN pc' = "ss_loop" /\ caller' = "play"
       ELSE pc' = "ps_hdr" /\ caller' = "none"
  /\ ret' = "none"
  /\ UNCHANGED <<build, port_latch, chanvars, hwvars, wait_timer_old_frequency2, wait_toggle_count,
                 delayvars, scorevars, tune_playing, isr_pc, ended>>

\* Faulty variant of PlayScoreHeader: a header is taken to be sizeof(file_hdr_t) bytes.
PlayScoreHeader_FixedSkip(s) ==
  /\ MainAt("ps_hdr")
  /\ score' = s
  /\ score_start' = IF HasHeader(s) THEN 6 ELSE 0
  /\ volume_present' = IF HasHeader(s) THEN HeaderVolume(s) ELSE (ASSUME_VOLUME # 0)
  /\ score_cursor' = score_start'
  /\ ended' = "no"
  /\ pc' = "ps_step"
  /\ ret' = "none"
  /\ UNCHANGED <<build, port_latch, chanvars, hwvars, wait_timer_old_frequency2, wait_toggle_count,
                 delayvars, tune_playing, loop_i, caller, isr_pc>>

\* Faulty variant of PlayScoreHeader: volume_present is not reset before the header is
\* looked for.
PlayScoreHeader_KeepVolume(s) ==
  /\ MainAt("ps_hdr")
  /\ score' = s
  /\ score_start' = IF HasHeader(s) THEN HeaderByte(s, 2) ELSE 0
  /\ volume_present' = IF HasHeader(s) THEN HeaderVolume(s) ELSE volume_present
  /\ score_cursor' = score_start'
  /\ ended' = "no"
  /\ pc' = "ps_step"
  /\ ret' = "none"
  /\ UNCHANGED <<build, port_latch, chanvars, hwvars, wait_timer_old_frequency2, wait_toggle_count,
                 delayvars, tune_playing, loop_i, caller, isr_pc>>

\* score_start, volume_present, the optional header, score_cursor.  s is the
\* argument of the call: nothing before this point reads it, so it is drawn here.
PlayScoreHeader(s) ==
  /\ MainAt("ps_hdr")
  /\ score' = s
  /\ score_start' = IF HasHeader(s) THEN HeaderByte(s, 2) ELSE 0
  /\ volume_present' = IF HasHeader(s) THEN HeaderVolume(s) ELSE (ASSUME_VOLUME # 0)
  /\ score_cursor' = score_start'
  /\ ended' = "no"
  /\ pc' = "ps_step"
  /\ ret' = "none"
  /\ UNCHANGED <<build, port_latch, chanvars, hwvars, wait_timer_old_frequency2, wait_toggle_count,
                 delayvars, tune_playing, loop_i, caller, isr_pc>>

\* One command of the initial tune_stepscore(), run in the main flow
MainStepCmd(past_table) ==
  /\ MainAt("ps_step")
  /\ LET r == ExecCmd(HW, score_cursor, past_table)
     IN  /\ SetHW(r.h)
         /\ score_cursor' = r.cursor
         /\ tune_playing' = r.playing
         /\ wait_toggle_count' = r.wait
         /\ pc' = IF r.done THEN "ps_release" ELSE "ps_step"
         /\ ended' = IF r.stop THEN "cmd" ELSE ended
  /\ ret' = "none"
  /\ UNCHANGED <<build, port_latch, chanvars, wait_timer_old_frequency2, delayvars,
                 score, score_start, volume_present, loop_i, caller, isr_pc>>

\* Faulty variant of PlayScoreRelease: tune_playscore returns without setting tune_playing.
PlayScoreRelease_NoRelease ==
  /\ MainAt("ps_release")
  /\ pc' = "idle"
  /\ ret' = IF caller = "play" THEN "replayscore" ELSE "playscore"
  /\ caller' = "none"
  /\ UNCHANGED <<build, port_latch, chanvars, hwvars, wait_timer_old_frequency2, wait_toggle_count,
                 delayvars, scorevars, tune_playing, loop_i, ended, isr_pc>>

\* Playtune::tune_playing = true;  /* release the interrupt routine */
PlayScoreRelease ==
  /\ MainAt("ps_release")
  /\ tune_playing' = TRUE
  /\ pc' = "idle"
  /\ ret' = IF caller = "play" THEN "replayscore" ELSE "playscore"
  /\ caller' = "none"
  /\ UNCHANGED <<build, port_latch, chanvars, hwvars, wait_timer_old_frequency2, wait_toggle_count,
                 delayvars, scorevars, loop_i, ended, isr_pc>>

-----------------------------------------------------------------------------
(* tune_delay *)

\* The noInterrupts() section that arms the delay
DelayCall(msec) ==
  /\ MainAt("idle")
  /\ delay_toggle_count' = ToggleCount(wait_timer_frequency2, msec)
  /\ doing_delay' = TRUE
  /\ pc' = "dl_poll"
  /\ ret' = "none"
  /\ UNCHANGED <<build, port_latch, chanvars, hwvars, wait_timer_old_frequency2, wait_toggle_count,
                 scorevars, tune_playing, callvars, isr_pc>>

\* Faulty variant of DelayPoll: the test is of a count read before the latest
\* tick, so the loop is left while 1 is still to be counted.
DelayPoll_StaleRead ==
  /\ MainAt("dl_poll")
  /\ pc' = IF delay_toggle_count > 1 THEN "dl_poll" ELSE "dl_clear"
  /\ ret' = "none"
  /\ UNCHANGED <<build, port_latch, chanvars, hwvars, wait_timer_old_frequency2, wait_toggle_count,
                 delayvars, scorevars, tune_playing, callvars, isr_pc>>

\* One pass of the do-while loop: the interrupt-safe test of delay_toggle_count
DelayPoll ==
  /\ MainAt("dl_poll")
  /\ pc' = IF delay_toggle_count # 0 THEN "dl_poll" ELSE "dl_clear"
  /\ ret' = "none"
  /\ UNCHANGED <<build, port_latch, chanvars, hwvars, wait_timer_old_frequency2, wait_toggle_count,
                 delayvars, scorevars, tune_playing, callvars, isr_pc>>

\* doing_delay = false;
DelayClear ==
  /\ MainAt("dl_clear")
  /\ doing_delay' = FALSE
  /\ pc' = "idle"
  /\ ret' = "delay"
  /\ UNCHANGED <<build, port_latch, chanvars, hwvars, wait_timer_old_frequency2, wait_toggle_count,
                 delay_toggle_count, scorevars, tune_playing, callvars, isr_pc>>

-----------------------------------------------------------------------------
(* tune_stopchans *)

\* One pass of the for loop for channel chan on (ie, level): the timer's compare
\* interrupt disabled, digitalWrite(_tune_pins[chan], 0)
RECURSIVE StopChansFrom(_, _)
StopChansFrom(x, chan) ==
  IF chan >= tune_num_chans THEN x
  ELSE LET timer_num == tune_pin_to_timer_PGM[chan + 1]
           pin       == tune_pins[chan]
       IN  StopChansFrom([ie    |-> [x.ie EXCEPT ![timer_num] = FALSE],
                          level |-> IF pin \in DOMAIN x.level
                                      THEN [x.level EXCEPT ![pin] = FALSE]
                                      ELSE x.level],
                         chan + 1)

\* Faulty variant of StopChans: the loop starts at channel 1, leaving the Wait Timer.
StopChans_KeepWaitTimer ==
  /\ MainAt("idle")
  /\ LET x == StopChansFrom([ie |-> ie, level |-> level], 1)
     IN  ie' = x.ie /\ level' = x.level
  /\ tune_num_chans' = 0
  /\ ret' = "stopchans"
  /\ UNCHANGED <<build, port_latch, tune_pins, timer_pin, cs, ocr, tcnt, note_writes,
                 wait_timer_frequency2,
                 wait_timer_playing, wait_timer_old_frequency2, wait_toggle_count,
                 delayvars, scorevars, tune_playing, pc, callvars, isr_pc>>

\* Faulty variant of StopChans: tune_stopchans also ends the score, as tune_stopscore does.
StopChans_StopsScore ==
  /\ MainAt("idle")
  /\ LET x == StopChansFrom([ie |-> ie, level |-> level], 0)
     IN  ie' = x.ie /\ level' = x.level
  /\ tune_num_chans' = 0
  /\ tune_playing' = FALSE
  /\ ret' = "stopchans"
  /\ UNCHANGED <<build, port_latch, tune_pins, timer_pin, cs, ocr, tcnt, note_writes,
                 wait_timer_frequency2,
                 wait_timer_playing, wait_timer_old_frequency2, wait_toggle_count,
                 delayvars, scorevars, pc, callvars, isr_pc>>

\* Channel 0 is timer 1, so the Wait Timer handler is disabled by the first pass
\* and cannot interpret the score between the later ones.
StopChans ==
  /\ MainAt("idle")
  /\ LET x == StopChansFrom([ie |-> ie, level |-> level], 0)
     IN  ie' = x.ie /\ level' = x.level
  /\ tune_num_chans' = 0
  /\ ret' = "stopchans"
  /\ UNCHANGED <<build, port_latch, tune_pins, timer_pin, cs, ocr, tcnt, note_writes,
                 wait_timer_frequency2,
                 wait_timer_playing, wait_timer_old_frequency2, wait_toggle_count,
                 delayvars, scorevars, tune_playing, pc, callvars, isr_pc>>

-----------------------------------------------------------------------------
(* Interrupt handlers *)

\* ISR(TIMERn_COMPA_vect) for the timers other than timer 1: toggle the pin
TimerISR(t) ==
  /\ t # 1
  /\ HasISR(t)
  /\ ie[t]
  /\ isr_pc = "none"
  /\ level' = PinToggle(level, t)
  /\ ret' = "none"
  /\ UNCHANGED <<build, port_latch, chanvars, ie, cs, ocr, tcnt, note_writes,
                 wait_timer_frequency2, wait_timer_playing,
                 wait_timer_old_frequency2, wait_toggle_count, delayvars, scorevars,
                 tune_playing, pc, callvars, isr_pc>>

\* Faulty variant of DelayCountdown: the handler does not count delays down.
DelayCountdown_Never(count) == count

\* Faulty variant of DelayCountdown: the count is not tested, so a count of 0
\* goes below zero.
DelayCountdown_Unguarded(count) == IF doing_delay THEN count - 1 ELSE count

\* if (doing_delay && delay_toggle_count) --delay_toggle_count;
DelayCountdown(count) == IF doing_delay /\ count # 0 THEN count - 1 ELSE count

\* 32-bit unsigned arithmetic on a count below 2^31 and a 16-bit factor n, by
\* 16-bit words.  MulHigh is the exact product divided by 2^16; the product
\* wraps in an unsigned long when that is 2^16 or more.
MulHigh(count, n) == (count \div 65536) * n + ((count % 65536) * n) \div 65536
MulLow(count, n)  == ((count % 65536) * n) % 65536

\* (count * n) / d as the code computes it: the product modulo 2^32, then the
\* division.
MulDiv32(count, n, d) ==
  LET hi == MulHigh(count, n) % 65536
      lo == MulLow(count, n)
  IN  (hi \div d) * 65536 + ((hi % d) * 65536 + lo) \div d

\* The recomputation of delay_toggle_count after tune_stepscore() when the Wait
\* Timer's frequency has changed.  In the scaled branch the product of the two
\* shifted operands and the final shift stay below 2^31 for every count that
\* tune_delay can leave (at most 65.535 times the old frequency).
DelayRescale(count, old2, new2) ==
  IF doing_delay /\ old2 # new2
    THEN IF count >= 131072 /\ new2 >= 16384
           THEN ((((count + 4) \div 8) * ((new2 + 2) \div 4)) \div old2) * 32
           ELSE MulDiv32(count, new2, old2)
    ELSE count

\* Faulty variant of WaitTimerISR: tune_stepscore() is called one tick early, when
\* the count left is 1.
WaitTimerISR_StepEarly ==
  /\ ie[1]
  /\ isr_pc = "none"
  /\ level' = IF wait_timer_playing THEN PinToggle(level, 1) ELSE level
  /\ IF tune_playing /\ wait_toggle_count # 0
       THEN /\ wait_toggle_count' = wait_toggle_count - 1
            /\ IF wait_toggle_count - 1 <= 1
                 THEN /\ wait_timer_old_frequency2' = wait_timer_frequency2
                      /\ isr_pc' = "step"
                      /\ UNCHANGED delay_toggle_count
                 ELSE /\ delay_toggle_count' = DelayCountdown(delay_toggle_count)
                      /\ UNCHANGED <<wait_timer_old_frequency2, isr_pc>>
       ELSE /\ delay_toggle_count' = DelayCountdown(delay_toggle_count)
            /\ UNCHANGED <<wait_toggle_count, wait_timer_old_frequency2, isr_pc>>
  /\ ret' = "none"
  /\ UNCHANGED <<build, port_latch, chanvars, ie, cs, ocr, tcnt, note_writes,
                 wait_timer_frequency2, wait_timer_playing,
                 doing_delay, scorevars, tune_playing, pc, callvars>>

\* ISR(TIMER1_COMPA_vect) up to the call of tune_stepscore(), and to its end when
\* no score wait expires in this tick
WaitTimerISR ==
  /\ ie[1]
  /\ isr_pc = "none"
  /\ level' = IF wait_timer_playing THEN PinToggle(level, 1) ELSE level
  /\ IF tune_playing /\ wait_toggle_count # 0
       THEN /\ wait_toggle_count' = wait_toggle_count - 1
            /\ IF wait_toggle_count - 1 = 0
                 THEN /\ wait_timer_old_frequency2' = wait_timer_frequency2
                      /\ isr_pc' = "step"
                      /\ UNCHANGED delay_toggle_count
                 ELSE /\ delay_toggle_count' = DelayCountdown(delay_toggle_count)
                      /\ UNCHANGED <<wait_timer_old_frequency2, isr_pc>>
       ELSE /\ delay_toggle_count' = DelayCountdown(delay_toggle_count)
            /\ UNCHANGED <<wait_toggle_count, wait_timer_old_frequency2, isr_pc>>
  /\ ret' = "none"
  /\ UNCHANGED <<build, port_latch, chanvars, ie, cs, ocr, tcnt, note_writes,
                 wait_timer_frequency2, wait_timer_playing,
                 doing_delay, scorevars, tune_playing, pc, callvars>>

\* One command of the tune_stepscore() called by the Wait Timer handler; after the
\* last one, the rest of the handler.  wait_timer_old_frequency2 is written
\* before the call and read after it and nowhere else, so what it holds between
\* two runs of the handler is never read: the model keeps 0 there.
IsrStepCmd(past_table) ==
  /\ isr_pc = "step"
  /\ LET r == ExecCmd(HW, score_cursor, past_table)
     IN  /\ SetHW(r.h)
         /\ score_cursor' = r.cursor
         /\ tune_playing' = r.playing
         /\ wait_toggle_count' = r.wait
         /\ IF r.done
              THEN /\ delay_toggle_count' =
                        DelayCountdown(DelayRescale(delay_toggle_count,
                                                    wait_timer_old_frequency2, r.h.wtf2))
                   /\ wait_timer_old_frequency2' = 0
                   /\ isr_pc' = "none"
              ELSE UNCHANGED <<delay_toggle_count, wait_timer_old_frequency2, isr_pc>>
         /\ ended' = IF r.stop THEN "cmd" ELSE ended
  /\ ret' = "none"
  /\ UNCHANGED <<build, port_latch, chanvars, doing_delay,
                 score, score_start, volume_present, pc, loop_i, caller>>

-----------------------------------------------------------------------------

Next ==
  \/ \E pin \in PinArgs : InitChanCall(pin)
  \/ InitChanConfig
  \/ InitChanStop
  \/ StopScoreCall
  \/ StopScoreLoop
  \/ PlayScoreCall
  \/ \E s \in Scores : PlayScoreHeader(s)
  \/ \E t \in PastTableReads : MainStepCmd(t)
  \/ PlayScoreRelease
  \/ \E msec \in 0..MaxDelayMs : DelayCall(msec)
  \/ DelayPoll
  \/ DelayClear
  \/ StopChans
  \/ \E t \in Timers : TimerISR(t)
  \/ WaitTimerISR
  \/ \E t \in PastTableReads : IsrStepCmd(t)

Spec == Init /\ [][Next]_vars

\* Scheduling.  An enabled compare interrupt of the free-running timer 1 is
\* raised again and again, and a handler that was entered runs to its end (weak
\* fairness).  The main flow is suspended while a handler runs, but the
\* processor executes at least one main-flow instruction between two handlers,
\* so a loop of tune_delay that is ready again and again is executed (strong
\* fairness).
SpecFair ==
  /\ Init /\ [][Next]_vars
  /\ WF_vars(WaitTimerISR)
  /\ WF_vars(\E t \in PastTableReads : IsrStepCmd(t))
  /\ SF_vars(DelayPoll)
  /\ SF_vars(DelayClear)

\* A sketch that initialises one channel and plays scores with long waits: the
\* same functions and handlers, called with these arguments.
NextLong ==
  \/ tune_num_chans = 0 /\ InitChanCall(SketchPins[1])
  \/ InitChanConfig
  \/ InitChanStop
  \/ StopScoreCall
  \/ StopScoreLoop
  \/ PlayScoreCall
  \/ \E s \in LongScores : PlayScoreHeader(s)
  \/ MainStepCmd(6)
  \/ PlayScoreRelease
  \/ WaitTimerISR
  \/ IsrStepCmd(6)

SpecLong == Init /\ [][NextLong]_vars

\* A sketch that initialises one channel, plays one score and then calls
\* tune_delay, with the arguments of ArithScores and MsSamples.  Of the Wait
\* Timer ticks only those on which a score wait expires are followed; the ticks
\* that only count down are left out, so a count it reaches is the count
\* computed, not a count partly elapsed.
NextArith ==
  \/ tune_num_chans = 0 /\ InitChanCall(SketchPins[1])
  \/ InitChanConfig
  \/ InitChanStop
  \/ score = <<>> /\ tune_num_chans = 1 /\ PlayScoreCall
  \/ \E s \in ArithScores : PlayScoreHeader(s)
  \/ MainStepCmd(6)
  \/ PlayScoreRelease
  \/ \E msec \in MsSamples : ret = "playscore" /\ DelayCall(msec)
  \/ DelayPoll
  \/ DelayClear
  \/ tune_playing /\ wait_toggle_count = 1 /\ WaitTimerISR
  \/ IsrStepCmd(6)

SpecArith == Init /\ [][NextArith]_vars

\* A sketch with one channel that plays a score alternating two notes on
\* channel 0 and calls tune_delay and tune_stopscore at any point: the Wait
\* Timer's frequency goes up and down under an outstanding delay.
\*   note 69 on channel 0, wait 2 ms, note 60 on channel 0, wait 2 ms, restart
ScoreTwoTone == <<144, 69, 0, 2, 144, 60, 0, 2, 224>>

NextDelay ==
  \/ tune_num_chans = 0 /\ InitChanCall(SketchPins[1])
  \/ InitChanConfig
  \/ InitChanStop
  \/ StopScoreCall
  \/ StopScoreLoop
  \/ PlayScoreCall
  \/ PlayScoreHeader(ScoreTwoTone)
  \/ MainStepCmd(6)
  \/ PlayScoreRelease
  \/ \E msec \in 0..MaxDelayMs : DelayCall(msec)
  \/ DelayPoll
  \/ DelayClear
  \/ WaitTimerISR
  \/ IsrStepCmd(6)

SpecDelay == Init /\ [][NextDelay]_vars

\* The translation of notes to timer settings (tune_playnote), for every note,
\* every timer of each processor and both sides of the source's test of F_CPU.
\* The sketch initialises every channel and plays a score whose first step
\* starts note n1 and then note n2 on channel c; the timers count on between
\* the statements of the main flow.  The handlers are left out: they change no
\* prescaler, compare value or counter.
NoteClocks == {8000000, 16000000}
FirstNotes == {60, 127}
NoteScore(c, n1, n2) == <<144 + c, n1, 144 + c, n2, 240>>
NoteScores == {NoteScore(c, n1, n2) : c \in 0..5, n1 \in FirstNotes, n2 \in 0..127}

InitNote ==
  /\ chip \in Chips
  /\ F_CPU \in NoteClocks
  /\ tune_pins = [c \in 0..(AVAILABLE_TIMERS - 1) |-> 0]
  /\ tune_num_chans = 0
  /\ timer_pin = [t \in Timers |-> 0]
  /\ ie = [t \in Timers |-> FALSE]
  /\ cs = [t \in Timers |-> 0]
  /\ ocr = [t \in Timers |-> 0]
  /\ tcnt = [t \in Timers |-> "any"]
  /\ note_writes = <<>>
  /\ level = [p \in Pins |-> FALSE]
  /\ wait_timer_frequency2 = 0
  /\ wait_timer_old_frequency2 = 0
  /\ wait_timer_playing = FALSE
  /\ doing_delay = FALSE
  /\ wait_toggle_count = 0
  /\ delay_toggle_count = 0
  /\ score = <<>>
  /\ score_start = 0
  /\ score_cursor = 0
  /\ tune_playing = FALSE
  /\ volume_present = (ASSUME_VOLUME # 0)
  /\ pc = "idle"
  /\ loop_i = 0
  /\ caller = "none"
  /\ isr_pc = "none"
  /\ ret = "none"
  /\ ended = "no"
  /\ port_latch = <<>>

\* The counters of the timers whose clock is selected count on.
TimersRun ==
  /\ tcnt' = [t \in Timers |-> IF cs[t] # 0 THEN "any" ELSE tcnt[t]]
  /\ tcnt' # tcnt
  /\ UNCHANGED <<build, port_latch, chanvars, ie, cs, ocr, note_writes, level, wait_timer_frequency2,
                 wait_timer_playing, wait_timer_old_frequency2, wait_toggle_count,
                 delayvars, scorevars, tune_playing, pc, callvars, isr_pc, ret>>

NextNote ==
  \/ \E pin \in PinArgs : InitChanCall(pin)
  \/ InitChanConfig
  \/ InitChanStop
  \/ tune_num_chans = AVAILABLE_TIMERS /\ score = <<>> /\ PlayScoreCall
  \/ \E s \in NoteScores : PlayScoreHeader(s)
  \/ MainStepCmd(6)
  \/ PlayScoreRelease
  \/ TimersRun

SpecNote == InitNote /\ [][NextNote]_vars

\* A sketch that calls tune_playscore once, with every channel initialised, and
\* never tune_stopscore: it may call tune_stopchans at any time, initialise
\* channels again and call tune_delay.  Whatever steps the score after
\* tune_stopchans does so without a new tune_playscore.
ResumeScores == {ScoreTune, ScoreRestart}

NextResume ==
  \/ \E pin \in PinArgs : InitChanCall(pin)
  \/ InitChanConfig
  \/ InitChanStop
  \/ tune_num_chans = AVAILABLE_TIMERS /\ score = <<>> /\ PlayScoreCall
  \/ \E s \in ResumeScores : PlayScoreHeader(s)
  \/ MainStepCmd(6)
  \/ PlayScoreRelease
  \/ \E msec \in 0..MaxDelayMs : DelayCall(msec)
  \/ DelayPoll
  \/ DelayClear
  \/ StopChans
  \/ \E t \in Timers : TimerISR(t)
  \/ WaitTimerISR
  \/ IsrStepCmd(6)

SpecResume == Init /\ [][NextResume]_vars

\* The sketch of Next without tune_delay and tune_stopchans, with the pin writes
\* of the main-flow tune_stopnote calls that a score step can fall into taken as
\* a read and a write of the port.
\* Channel 0 on for 3 ms and off for 1 ms, for ever
ScoreOnOff == <<144, 60, 0, 3, 128, 0, 1, 224>>
PortScores == {ScoreTune, ScoreOnOff}

NextPort ==
  \/ \E pin \in PinArgs : InitChanCall(pin)
  \/ InitChanConfig
  \/ InitChanStopLoad
  \/ InitChanStopStore
  \/ StopScoreCall
  \/ StopScoreLoad
  \/ StopScoreStore
  \/ loop_i >= tune_num_chans /\ StopScoreLoop
  \/ PlayScoreCall
  \/ \E s \in PortScores : PlayScoreHeader(s)
  \/ MainStepCmd(6)
  \/ PlayScoreRelease
  \/ \E t \in Timers : TimerISR(t)
  \/ WaitTimerISR
  \/ IsrStepCmd(6)

SpecPort == Init /\ [][NextPort]_vars

-----------------------------------------------------------------------------
(* Properties *)

\* Control is with the caller: no public function and no handler is running.
AtRest == pc = "idle" /\ isr_pc = "none"

\* The main flow is inside tune_playscore.
InPlayScore ==
  \/ pc \in {"ps_hdr", "ps_step", "ps_release"}
  \/ pc = "ss_loop" /\ caller = "play"

\* This step executes the command at the cursor.
CmdStep ==
  /\ isr_pc = "step" \/ (pc = "ps_step" /\ isr_pc = "none")
  /\ score_cursor' # score_cursor

CmdOpcode == (ReadByte(score_cursor) \div 16) * 16
CmdChan == ReadByte(score_cursor) % 16

\* The score begins with 'P', 't'.
Magic(s) == Len(s) >= 6 /\ s[1] = 80 /\ s[2] = 116

\* Channel c makes no sound.
Silent(c) ==
  LET t == tune_pin_to_timer_PGM[c + 1]
  IN  /\ IF t = 1 THEN ~wait_timer_playing ELSE ~ie[t]
      /\ ~level[tune_pins[c]]

\* C1: once the interpreter has executed a Stop command, whether in the initial
\* step inside tune_playscore or in a step run by the Wait Timer handler,
\* tune_playing is false whenever control is with the caller, until the next
\* tune_playscore call.
C1_StopLeavesNotPlaying == (ended = "cmd" /\ AtRest) => ~tune_playing

C3_SilentAfterStopscore ==
  ret = "stopscore" =>
    /\ ~tune_playing
    /\ \A c \in 0..(tune_num_chans - 1) : Silent(c)

\* C4: once playback has ended, by tune_stopscore or by a Stop command, and
\* until the next tune_playscore call, tune_stepscore is not entered and the
\* cursor does not move.
C4_NoStepAfterEnd ==
  [][(ended # "no" /\ ~InPlayScore /\ ~InPlayScore')
       => (score_cursor' = score_cursor /\ isr_pc' = "none")]_vars

\* C5: the channel count never exceeds AVAILABLE_TIMERS, and a tune_initchan
\* call made when it equals AVAILABLE_TIMERS changes neither the channel count,
\* the pin table, any timer's configuration, the Wait Timer frequency nor
\* wait_timer_playing.
C5_InitchanSaturation ==
  [][/\ tune_num_chans' <= AVAILABLE_TIMERS
     /\ ret' = "initchan_full" =>
          /\ tune_num_chans = AVAILABLE_TIMERS
          /\ UNCHANGED <<tune_num_chans, tune_pins, timer_pin, ie, cs, ocr, level,
                         wait_timer_frequency2, wait_timer_playing>>]_vars

\* tune_initchan has returned from a call made with every timer allocated.
C5_Witness == ret = "initchan_full" /\ tune_num_chans = AVAILABLE_TIMERS

\* C6: a note-on command for a channel at or beyond the channel count changes
\* no timer, pin, Wait Timer frequency or wait_timer_playing, and moves the
\* cursor past its note byte, and past the velocity byte when volume is present.
C6_NoteOnBeyondChannels ==
  [][(CmdStep /\ CmdOpcode = CMD_PLAYNOTE /\ CmdChan >= tune_num_chans)
       => /\ UNCHANGED <<ie, cs, ocr, level, wait_timer_frequency2, wait_timer_playing>>
          /\ score_cursor' = score_cursor + (IF volume_present THEN 3 ELSE 2)]_vars

\* The initial step has passed the note-on for channel 6, with its velocity
\* byte, of the score with the volume header.
C6_Witness ==
  /\ pc = "ps_step"
  /\ score = ScoreVolume
  /\ score_cursor = 13
  /\ tune_num_chans <= 6

\* C7: a note-off command for a channel at or beyond the channel count leaves
\* every timer's interrupt enable, every pin and wait_timer_playing unchanged.
C7_NoteOffBeyondChannels ==
  [][(CmdStep /\ CmdOpcode = CMD_STOPNOTE /\ CmdChan >= tune_num_chans)
       => UNCHANGED <<ie, level, wait_timer_playing>>]_vars

\* C8: a note-on whose note byte is above 127 enables no timer interrupt,
\* changes no compare or prescale value, and changes neither the Wait Timer
\* frequency nor wait_timer_playing.
C8_PercussionRejected ==
  [][(CmdStep /\ CmdOpcode = CMD_PLAYNOTE /\ ReadByte(score_cursor + 1) > 127)
       => UNCHANGED <<ie, cs, ocr, wait_timer_frequency2, wait_timer_playing>>]_vars

\* C9: for a score that begins with 'P', 't' and has bit 0x80 set in flag byte 1,
\* interpretation starts header_length bytes after the score pointer and every
\* note-on consumes two operand bytes; for a score without the magic it starts
\* at the score pointer and every note-on consumes one operand byte.
C9_HeaderDecidesOperands ==
  [][/\ (pc = "ps_hdr" /\ pc' = "ps_step") =>
          /\ (Magic(score') /\ score'[4] >= 128) => score_cursor' = score'[3]
          /\ ~Magic(score') => score_cursor' = 0
     /\ (CmdStep /\ CmdOpcode = CMD_PLAYNOTE) =>
          /\ (Magic(score) /\ score[4] >= 128) => score_cursor' = score_cursor + 3
          /\ ~Magic(score) => score_cursor' = score_cursor + 2]_vars

\* The initial step of the score with the 7-byte volume header has passed its
\* first note-on: three bytes after the header.
C9_Witness == pc = "ps_step" /\ score = ScoreVolume /\ score_cursor = 10

\* C10: whatever score was played before, while a score without a header is
\* installed the velocity setting is the compile-time default.
C10_VolumeDecidedAfresh == ~Magic(score) => (volume_present = (ASSUME_VOLUME # 0))

\* A headerless score has been started after the score with the volume header:
\* only that score sets a wait of 3 toggles, and the headerless score stopped
\* before any wait.
C10_Witness ==
  /\ pc = "ps_release"
  /\ score = ScoreStopThenMore
  /\ wait_toggle_count = 3
  /\ ~volume_present

RECURSIVE InitialNoteOns(_, _)
InitialNoteOns(i, fuel) ==
  LET cmd    == ReadByte(i)
      opcode == (cmd \div 16) * 16
  IN  IF fuel = 0 \/ cmd < 128 \/ opcode = CMD_STOP THEN {}
      ELSE IF opcode = CMD_PLAYNOTE
        THEN {cmd % 16} \cup InitialNoteOns(i + (IF volume_present THEN 3 ELSE 2), fuel - 1)
      ELSE IF opcode = CMD_INSTRUMENT THEN InitialNoteOns(i + 2, fuel - 1)
      ELSE IF opcode = CMD_RESTART THEN InitialNoteOns(score_start, fuel - 1)
      ELSE InitialNoteOns(i + 1, fuel - 1)

\* Channel c is sounding: its timer toggles its pin.
Sounding(c) ==
  LET t == tune_pin_to_timer_PGM[c + 1]
  IN  IF t = 1 THEN wait_timer_playing ELSE ie[t]

\* C13: in the state in which a tune_playscore call made while a score was
\* playing returns, every initialised channel that is sounding was started by a
\* note-on in the initial step of the new score.
C13_ReplayStopsOldNotes ==
  ret = "replayscore" =>
    \A c \in 0..(tune_num_chans - 1) :
      Sounding(c) => c \in InitialNoteOns(score_start, Len(score))

\* C14: tune_stopchans disables the compare interrupt of the timer of every
\* channel that was initialised, the Wait Timer's included, drives the pin of
\* every such channel low and sets the channel count to zero; the tune_initchan
\* call that follows allocates timer 1 to its pin as channel 0.
C14_StopChansTearsDown ==
  [][/\ ret' = "stopchans" =>
          /\ \A c \in 0..(tune_num_chans - 1) :
               /\ ~ie'[tune_pin_to_timer_PGM[c + 1]]
               /\ ~level'[tune_pins[c]]
          /\ ~ie'[1]
          /\ tune_num_chans' = 0
     /\ (ret = "stopchans" /\ pc' = "ic_cfg") =>
          /\ tune_num_chans' = 1
          /\ tune_pin_to_timer_PGM[tune_num_chans'] = 1
     /\ (pc = "ic_cfg" /\ tune_num_chans = 1 /\ pc' # "ic_cfg") =>
          /\ timer_pin'[1] = tune_pins[0]
          /\ ie'[1]
          /\ pc' = "ic_stop"]_vars

\* tune_stopchans has returned from a call made with two or more channels
\* initialised and a note sounding on channel 1.
C14_Witness ==
  /\ ret = "stopchans"
  /\ tune_pins[1] # 0
  /\ (cs[2] > 1 \/ cs[0] > 1)
  /\ tune_num_chans = 0

\* C15: a wait command of ms milliseconds sets the Wait Counter to the integer
\* nearest to f2 * ms / 1000 (halves rounded up), or to 1 when that is 0, f2
\* being the Wait Timer's doubled frequency when the command is executed; the
\* sum f2 * ms + 500 stays below 2^31, so it does not wrap in 32 bits.
C15_WaitConversion ==
  [][(CmdStep /\ ReadByte(score_cursor) < 128) =>
       LET ms == ReadByte(score_cursor) * 256 + ReadByte(score_cursor + 1)
           f2 == wait_timer_frequency2
           w  == wait_toggle_count'
       IN  /\ ms <= 32767
           /\ f2 <= 25088
           /\ f2 \in {Frequency2(n) : n \in 0..127}
           /\ \A n \in 0..127 : Frequency2(n) * 32767 + 500 <= 2147483647
           /\ w >= 1
           /\ \/ w = 1 /\ f2 * ms + 500 < 1000
              \/ 1000 * w <= f2 * ms + 500 /\ f2 * ms + 500 < 1000 * w + 1000]_vars

\* The initial step has executed note-on(ch0, 127) and then wait(32767): the
\* count is that of 25088 half-periods per second, the frequency set in the
\* same step.
C15_Witness ==
  /\ pc = "ps_release"
  /\ score = ScoreWait(127, <<127, 255>>)
  /\ wait_timer_frequency2 = 25088
  /\ wait_toggle_count = 822058

\* This step is the end of a tune_stepscore() called by the Wait Timer handler,
\* followed by the rest of the handler, with a delay outstanding and the Wait
\* Timer's doubled frequency changed by the step.
RescaleStep ==
  /\ isr_pc = "step"
  /\ isr_pc' = "none"
  /\ doing_delay
  /\ wait_timer_old_frequency2 # wait_timer_frequency2'

\* C18: in a rescale of the Delay Counter the product computed in the branch
\* taken is below 2^32: the product of the shifted operands when the count is
\* 0x20000 or more and the new frequency 0x4000 or more, count * new frequency
\* otherwise.
C18_RescaleProductFits ==
  [][RescaleStep =>
       LET count == delay_toggle_count
           new2  == wait_timer_frequency2'
       IN  IF count >= 131072 /\ new2 >= 16384
             THEN ((count + 4) \div 8) * ((new2 + 2) \div 4) <= 2147483647
             ELSE MulHigh(count, new2) < 65536]_vars

\* The quotient count * n / d of the integers, without the 32-bit wrap.
ExactMulDiv(count, n, d) ==
  LET high == MulHigh(count, n)
  IN  (high \div d) * 65536 + ((high % d) * 65536 + MulLow(count, n)) \div d

\* C17: when the step called by the Wait Timer handler ends with a delay
\* outstanding and the frequency changed from F1 to F2, the Delay Counter c
\* becomes c * F2 / F1 to within a thousandth and 33 counts, before the tick's
\* own countdown; when the frequency is unchanged or no delay is outstanding,
\* the tick only counts the Delay Counter down.
C17_DelayRescaled ==
  [][(isr_pc = "step" /\ isr_pc' = "none") =>
       IF RescaleStep
         THEN LET exact == ExactMulDiv(delay_toggle_count, wait_timer_frequency2',
                                       wait_timer_old_frequency2)
                  tol   == 33 + exact \div 1024
              IN  /\ delay_toggle_count' >= exact - tol - 1
                  /\ delay_toggle_count' <= exact + tol
         ELSE delay_toggle_count' = DelayCountdown(delay_toggle_count)]_vars

C19_DelayArmAndPollAtomic ==
  [][/\ (~doing_delay /\ doing_delay') =>
          /\ pc = "idle" /\ pc' = "dl_poll"
          /\ isr_pc = "none" /\ isr_pc' = "none"
          /\ \E msec \in 0..MaxDelayMs :
               delay_toggle_count' = ToggleCount(wait_timer_frequency2, msec)
     /\ ~doing_delay => (delay_toggle_count = 0 /\ (~doing_delay' => delay_toggle_count' = 0))
     /\ (pc = "dl_poll" /\ pc' # "dl_poll") =>
          /\ pc' = "dl_clear"
          /\ isr_pc = "none"
          /\ delay_toggle_count = 0
          /\ UNCHANGED <<delay_toggle_count, doing_delay>>
     /\ DelayPoll => ((pc' = "dl_clear") = (delay_toggle_count = 0))
     /\ ret' = "delay" => (delay_toggle_count' = 0 /\ ~doing_delay')]_vars

\* tune_delay is between two polls with a count outstanding, and the Wait Timer
\* handler is running a score step.
C19_Witness ==
  /\ pc = "dl_poll"
  /\ doing_delay
  /\ delay_toggle_count > 0
  /\ isr_pc = "step"

\* C20: neither counter goes below zero.  A run of the Wait Timer handler takes
\* 1 from the Wait Counter exactly when playing and it is nonzero, and takes 1
\* from the Delay Counter exactly when a delay is outstanding and it is nonzero,
\* whatever the other counter does; at the end of a handler run that rescaled
\* the Delay Counter the 1 is taken from the rescaled count, and nothing from a
\* count rescaled to 0.  Nothing else lowers the Delay Counter.
C20_CountersNeverWrap ==
  [][/\ wait_toggle_count >= 0 /\ delay_toggle_count >= 0
     /\ wait_toggle_count' >= 0 /\ delay_toggle_count' >= 0
     /\ WaitTimerISR =>
          /\ wait_toggle_count' = IF tune_playing /\ wait_toggle_count # 0
                                    THEN wait_toggle_count - 1 ELSE wait_toggle_count
          /\ isr_pc' = "none" =>
               delay_toggle_count' = IF doing_delay /\ delay_toggle_count # 0
                                       THEN delay_toggle_count - 1 ELSE delay_toggle_count
          /\ isr_pc' = "step" => delay_toggle_count' = delay_toggle_count
     /\ (isr_pc = "step" /\ isr_pc' = "none") =>
          LET scaled == IF RescaleStep
                          THEN ExactMulDiv(delay_toggle_count, wait_timer_frequency2',
                                           wait_timer_old_frequency2)
                          ELSE delay_toggle_count
          IN  delay_toggle_count' = IF doing_delay /\ scaled # 0 THEN scaled - 1 ELSE 0
     /\ (isr_pc = "step" /\ isr_pc' = "step") => delay_toggle_count' = delay_toggle_count
     /\ (doing_delay /\ delay_toggle_count' # delay_toggle_count) =>
          (pc = "dl_poll" /\ pc' = "dl_poll" /\ isr_pc' = "none")]_vars

\* The handler's step has lowered the Wait Timer's doubled frequency from 880 to
\* 523 with a delay of one count outstanding: the rescale at the end of this
\* handler run gives 0, from which nothing is taken.
C20_Witness ==
  /\ isr_pc = "step"
  /\ doing_delay
  /\ delay_toggle_count = 1
  /\ wait_timer_old_frequency2 = 880
  /\ wait_timer_frequency2 = 523
  /\ score_cursor = 6

\* The first step of a score of NoteScores has executed its second note-on.
AfterSecondNote == score \in NoteScores /\ pc = "ps_step" /\ score_cursor = 4

NoteChan == score[3] - 144
NoteTimer == tune_pin_to_timer_PGM[NoteChan + 1]

\* tune_playnote accepts this note on this timer.
NoteAccepted(t, note) == ~Is8BitTimer(t) \/ note >= (IF F_CPU <= 8000000 THEN 12 ELSE 24)

\* The prescale divisors of a timer in increasing order, the largest value its
\* compare register holds, and the clock select bits of each divisor.
DivisorList(t) ==
  IF ~Is8BitTimer(t) THEN <<1, 64>>
  ELSE IF t = 2 THEN <<1, 8, 32, 64, 128, 256, 1024>>
  ELSE <<1, 8, 64, 256, 1024>>

RegisterMax(t) == IF Is8BitTimer(t) THEN 255 ELSE 65535

ClockSelect(t, p) ==
  IF ~Is8BitTimer(t) THEN (IF p = 1 THEN 1 ELSE 3)
  ELSE IF t = 2 THEN
    CASE p = 1 -> 1 [] p = 8 -> 2 [] p = 32 -> 3 [] p = 64 -> 4
      [] p = 128 -> 5 [] p = 256 -> 6 [] OTHER -> 7
  ELSE IF t = 4 THEN
    CASE p = 1 -> 1 [] p = 8 -> 4 [] p = 64 -> 7 [] p = 256 -> 9 [] OTHER -> 11
  ELSE
    CASE p = 1 -> 1 [] p = 8 -> 2 [] p = 64 -> 3 [] p = 256 -> 4 [] OTHER -> 5

CompareFor(f2, p) == (F_CPU \div f2) \div p - 1

\* The smallest divisor of the timer's list whose compare value fits, the
\* largest of the list when none fits.
SmallestFit(t, f2) ==
  LET L  == DivisorList(t)
      ok == {i \in DOMAIN L : CompareFor(f2, L[i]) <= RegisterMax(t)}
  IN  IF ok = {} THEN L[Len(L)]
      ELSE L[CHOOSE i \in ok : \A k \in ok : i <= k]

\* C21: after an accepted note-on the timer's clock select is that of the
\* smallest divisor of its list whose compare value F_CPU/f2/p - 1 fits the
\* register, the compare register holds that value (half of it plus 1 on the
\* 10-bit timer, as the code writes it), and the value is within the register's
\* range.
C21_SmallestFittingDivisor ==
  (AfterSecondNote /\ NoteChan < tune_num_chans /\ NoteAccepted(NoteTimer, score[4])) =>
    LET t  == NoteTimer
        f2 == Frequency2(score[4])
        p  == SmallestFit(t, f2)
    IN  /\ cs[t] = ClockSelect(t, p)
        /\ CompareFor(f2, p) >= 0
        /\ CompareFor(f2, p) <= RegisterMax(t)
        /\ ocr[t] = IF chip = "ATmega32U4" /\ t = 4 THEN CompareFor(f2, p) \div 2 + 1
                                                    ELSE CompareFor(f2, p)

\* Timer 2 has been given the divisor 32, which only its list has, in a build
\* for 8 MHz.
C21_Witness ==
  /\ AfterSecondNote
  /\ NoteChan < tune_num_chans
  /\ NoteTimer = 2
  /\ cs[2] = 3
  /\ cs[1] = 1
  /\ F_CPU = 8000000

\* The command at the cursor is a note-on for an initialised channel.
NoteOnStep ==
  /\ CmdStep
  /\ CmdOpcode = CMD_PLAYNOTE
  /\ CmdChan < tune_num_chans

\* C22: a note-on below the floor (12 when F_CPU <= 8 MHz, 24 otherwise) on an
\* 8-bit-class timer changes no prescaler, compare value, counter, interrupt
\* enable or pin, so what the channel was sounding goes on; a note at or above
\* the floor, and any note on a 16-bit timer, is accepted: the timer's counter
\* is reset and its interrupt enabled.
C22_LowNoteDeclined ==
  [][NoteOnStep =>
       LET t     == tune_pin_to_timer_PGM[CmdChan + 1]
           note  == ReadByte(score_cursor + 1)
           floor == IF F_CPU <= 8000000 THEN 12 ELSE 24
       IN  IF Is8BitTimer(t) /\ note < floor
             THEN UNCHANGED <<cs, ocr, tcnt, ie, level, wait_timer_frequency2,
                              wait_timer_playing>>
             ELSE /\ tcnt'[t] = "zero"
                  /\ ie'[t]
                  /\ cs'[t] # 0]_vars

\* In a build for 8 MHz note 11 has been declined on an 8-bit-class timer that
\* goes on sounding the note before it, its counter having counted on.
C22_Witness ==
  /\ AfterSecondNote
  /\ NoteChan < tune_num_chans
  /\ F_CPU = 8000000
  /\ Is8BitTimer(NoteTimer)
  /\ score[4] = 11
  /\ ie[NoteTimer]
  /\ tcnt[NoteTimer] = "any"

\* Where register x is in the sequence of writes w; 0 when it is not written.
WritePosition(w, x) ==
  IF \E i \in DOMAIN w : w[i] = x THEN CHOOSE i \in DOMAIN w : w[i] = x ELSE 0

\* C23: an accepted note-on writes the compare value, then writes 0 to the
\* timer's counter, then enables the compare interrupt, on every timer: after it
\* the counter is at zero whatever it had counted to, and the interrupt is
\* enabled.
C23_CounterResetOnNoteOn ==
  [][(NoteOnStep /\ NoteAccepted(tune_pin_to_timer_PGM[CmdChan + 1],
                                 ReadByte(score_cursor + 1))) =>
       LET t == tune_pin_to_timer_PGM[CmdChan + 1]
           w == note_writes'
       IN  /\ tcnt'[t] = "zero"
           /\ ie'[t]
           /\ WritePosition(w, "OCR") > 0
           /\ WritePosition(w, "OCR") < WritePosition(w, "TCNT")
           /\ WritePosition(w, "TCNT") < WritePosition(w, "TIMSK")]_vars

\* The 10-bit timer of the ATmega32U4, which had counted on while sounding the
\* first note, is at zero after the second note-on.
C23_Witness ==
  /\ AfterSecondNote
  /\ NoteChan < tune_num_chans
  /\ chip = "ATmega32U4"
  /\ NoteTimer = 4
  /\ score[4] = 69
  /\ tcnt[4] = "zero"
  /\ tcnt[1] = "any"
  /\ ie[4]

C25_WaitTimerStaysEnabled ==
  [][/\ (ret' = "initchan" /\ tune_num_chans' = 1) => ie'[1]
     /\ (ie[1] /\ ~ie'[1]) => (ret' = "stopchans" /\ tune_num_chans' = 0)
     /\ (tune_num_chans > 0 /\ pc # "ic_cfg") => ie[1]
     /\ (CmdStep /\ CmdOpcode = CMD_STOPNOTE /\ CmdChan = 0) =>
          /\ ~wait_timer_playing'
          /\ ie'[1] = ie[1]
          /\ timer_pin[1] \in DOMAIN level => ~level'[timer_pin[1]]]_vars

\* A delay is being counted and a score is playing while channel 0 is silent
\* after its note-off: the Wait Timer's interrupt is enabled.
C25_Witness ==
  /\ ie[1]
  /\ ~wait_timer_playing
  /\ tune_playing
  /\ score = ScoreTune
  /\ score_cursor = 8
  /\ doing_delay
  /\ delay_toggle_count > 0

\* The timer that channel c uses: the c-th entry of the allocation table
ChanTimer(c) == tune_pin_to_timer_PGM[c + 1]

\* Channel c has been through the whole of tune_initchan
Configured(c) == c < tune_num_chans /\ ~(pc = "ic_cfg" /\ c = tune_num_chans - 1)

\* C26: channel c is bound to the c-th entry of the allocation table. The table is
\* injective and its first entry is timer 1. The pin recorded for an initialised
\* channel is the pin of its timer, and no step changes the pin or the timer of a
\* channel that stays initialised: only tune_initchan writes them, for a channel that
\* was not initialised, which for an old index needs tune_stopchans first. A note-on
\* of a score for an initialised channel programs that channel's timer and no other.
C26_ChannelBoundToTableEntry ==
  [][/\ \A i, j \in 1..AVAILABLE_TIMERS :
          tune_pin_to_timer_PGM[i] = tune_pin_to_timer_PGM[j] => i = j
     /\ ChanTimer(0) = 1
     /\ chip' = chip
     /\ \A c \in 0..(AVAILABLE_TIMERS - 1) :
          /\ Configured(c) => timer_pin[ChanTimer(c)] = tune_pins[c]
          /\ (Configured(c) /\ c < tune_num_chans') =>
               /\ tune_pins'[c] = tune_pins[c]
               /\ timer_pin'[ChanTimer(c)] = timer_pin[ChanTimer(c)]
     /\ (tune_pins' # tune_pins) => (pc = "idle" /\ pc' = "ic_cfg")
     /\ (timer_pin' # timer_pin) => pc = "ic_cfg"
     /\ (tune_num_chans' < tune_num_chans) => (ret' = "stopchans" /\ tune_num_chans' = 0)
     /\ (CmdStep /\ CmdOpcode = CMD_PLAYNOTE /\ CmdChan < tune_num_chans) =>
          \A t \in Timers \ {ChanTimer(CmdChan)} :
            ie'[t] = ie[t] /\ cs'[t] = cs[t] /\ ocr'[t] = ocr[t]]_vars

\* Every channel is initialised and channel 1 is sounding on its own timer and pin.
C26_Witness ==
  /\ tune_num_chans = AVAILABLE_TIMERS
  /\ pc = "idle"
  /\ ie[ChanTimer(1)]
  /\ timer_pin[ChanTimer(1)] = tune_pins[1]
  /\ tune_pins[1] # tune_pins[0]
  /\ level[tune_pins[1]]

\* tune_stepscore is running, in the main flow or in the Wait Timer handler
StepActive == isr_pc = "step" \/ (pc = "ps_step" /\ isr_pc = "none")

\* The command at the cursor is a wait
CmdIsWait == ReadByte(score_cursor) < 128

\* C27: tune_stepscore goes on to the next command after every command but a wait
\* or a Stop, and returns after a wait or a Stop with the cursor just past it: two
\* bytes for a wait, whose count is at least one, one byte for a Stop, which clears
\* tune_playing. An instrument change moves the cursor two bytes and changes no
\* timer register, pin, counter or playing state.
C27_StepEndsAtWaitOrStop ==
  [][/\ (StepActive /\ ~StepActive') => CmdStep
     /\ CmdStep =>
       /\ StepActive' <=> ~(CmdIsWait \/ CmdOpcode = CMD_STOP)
       /\ CmdIsWait =>
            /\ score_cursor' = score_cursor + 2
            /\ wait_toggle_count' >= 1
            /\ tune_playing' = tune_playing
       /\ (~CmdIsWait /\ CmdOpcode = CMD_STOP) =>
            /\ score_cursor' = score_cursor + 1
            /\ ~tune_playing'
            /\ wait_toggle_count' = wait_toggle_count
       /\ (~CmdIsWait /\ CmdOpcode = CMD_INSTRUMENT) =>
            /\ score_cursor' = score_cursor + 2
            /\ UNCHANGED <<hwvars, chanvars, delayvars, wait_toggle_count,
                           wait_timer_old_frequency2, tune_playing, score_start,
                           volume_present>>]_vars

\* The first step of a score has passed an instrument change and a note-on and has
\* returned after the wait that follows them.
C27_Witness ==
  /\ score = ScoreQuietHeader
  /\ pc = "ps_release"
  /\ score_cursor = 12
  /\ wait_toggle_count >= 1
  /\ tune_num_chans > 1
  /\ ie[ChanTimer(1)]

\* tune_playscore is between its optional tune_stopscore and its last statement
InPlayScoreStep == pc \in {"ps_hdr", "ps_step", "ps_release"}

\* C28: while tune_playscore reads the header and runs the initial tune_stepscore in
\* the main flow, tune_playing is false and the Wait Timer handler is not in
\* tune_stepscore; tune_stepscore is never active in both contexts. Until the last
\* statement of tune_playscore the cursor and the Wait Counter change only as the
\* main-flow step's own command changes them, whatever interrupts occur; that last
\* statement sets tune_playing.
C28_InitialStepNotInterleaved ==
  [][/\ InPlayScoreStep => (~tune_playing /\ isr_pc = "none")
     /\ ~(isr_pc = "step" /\ pc = "ps_step")
     /\ InPlayScoreStep => isr_pc' # "step"
     /\ (pc = "ps_step" /\ score_cursor' # score_cursor) =>
          score_cursor' \in {ExecCmd(HW, score_cursor, t).cursor : t \in PastTableReads}
     /\ (pc = "ps_step" /\ wait_toggle_count' # wait_toggle_count) =>
          (CmdIsWait /\ CmdStep /\ pc' = "ps_release")
     /\ pc = "ps_release" => UNCHANGED <<score_cursor, wait_toggle_count>>
     /\ (pc = "ps_release" /\ pc' # pc) => (tune_playing' /\ pc' = "idle")
     /\ (~tune_playing /\ tune_playing') => pc = "ps_release"]_vars

\* The initial step of a second score is under way with the Wait Timer interrupt
\* enabled, channel 0 sounding, and the Wait Counter of the stopped score still
\* nonzero.
C28_Witness ==
  /\ pc = "ps_step"
  /\ score_cursor > score_start
  /\ ie[1]
  /\ wait_timer_playing
  /\ level[tune_pins[0]]
  /\ wait_toggle_count > 0
  /\ ~tune_playing

\* tune_delay is polling a nonzero Delay Counter with the Wait Timer interrupt disabled
DelayStuck == pc = "dl_poll" /\ ~ie[1] /\ delay_toggle_count # 0

\* C30: tune_stopchans changes nothing but the interrupt enables, the pin levels
\* and the number of channels: tune_playing, the cursor, the Wait Counter,
\* wait_timer_frequency2 and the Delay Counter are as before. With no channel
\* initialised the Wait Timer interrupt is disabled, and the cursor, the Wait
\* Counter and tune_playing stay as they are; the handler, once enabled again by
\* the initialisation of channel 0, counts the rest of the wait and steps the
\* score from that cursor. A tune_delay polling a nonzero Delay Counter while the
\* interrupt is disabled stays there: no step changes the counter, enables the
\* interrupt or leaves the loop.
C30_StopChansFrame ==
  [][/\ ret' = "stopchans" =>
          /\ UNCHANGED <<tune_playing, score_cursor, wait_toggle_count,
                         wait_timer_frequency2, wait_timer_playing, delayvars, score,
                         score_start>>
          /\ tune_num_chans' = 0
          /\ \A t \in Timers : ie'[t] => ie[t]
          /\ \A c \in 0..(tune_num_chans - 1) : ~ie'[ChanTimer(c)]
     /\ tune_num_chans = 0 => ~ie[1]
     /\ (tune_num_chans = 0 /\ pc \in {"idle", "dl_poll", "dl_clear"}) =>
          UNCHANGED <<tune_playing, score_cursor, wait_toggle_count>>
     /\ (tune_playing /\ ended = "no" /\ isr_pc = "none") => wait_toggle_count > 0
     /\ (isr_pc = "none" /\ isr_pc' = "step") =>
          /\ ie[1] /\ tune_playing /\ wait_toggle_count = 1
          /\ score_cursor' = score_cursor
     /\ DelayStuck => (DelayStuck' /\ delay_toggle_count' = delay_toggle_count)]_vars

\* The only tune_playscore was called with every channel initialised; now one
\* channel is initialised, so tune_stopchans and a new tune_initchan have been
\* called, and the handler is stepping the score past its first wait.
C30_Witness ==
  /\ tune_num_chans = 1
  /\ pc = "idle"
  /\ isr_pc = "step"
  /\ tune_playing
  /\ score = ScoreTune
  /\ score_cursor = 7
  /\ ie[1]

\* The main flow is inside tune_stopnote for channel c, between turning the tone
\* off and writing the pin
BeingStopped(c) == (pc = "ss_store" /\ loop_i = c) \/ (pc = "ic_store" /\ c = 0)

\* C29: the pin of an initialised channel that is not sounding (its last note
\* command was a note-off, or tune_stopscore has stopped it, or it has had no
\* note-on yet) is low, whenever no tune_stopnote for it is under way.
C29_PinLowAfterNoteOff ==
  \A c \in 0..(AVAILABLE_TIMERS - 1) :
    (Configured(c) /\ ~Sounding(c) /\ ~BeingStopped(c)) => ~level[tune_pins[c]]

====
